---- MODULE Spec2Model ----
(***************************************************************************)
(* The task store of garuda24-store and the handlers that act on it.       *)
(*                                                                         *)
(* The store is the tasks table the tests fill through db.insert.  The     *)
(* handlers updateTask, toggleTaskCompletion and deleteTask are modelled   *)
(* from their bodies under server/src/handlers: each resolves with a row   *)
(* built from its input and from the clock, and none of them reads or      *)
(* writes the table.  createTask and getTasks have no body in the sources  *)
(* at hand; they are modelled from their contract and their tests.  The    *)
(* client is the App component: its task list, its form and the requests   *)
(* it has in flight.                                                       *)
(***************************************************************************)
EXTENDS Integers, Sequences, FiniteSets, TLC

\* ---------------------------------------------------------------- bounds
MaxTasks == 2        \* rows the tests insert before the serial id is exhausted
MaxClock == 1        \* last instant of the millisecond clock

\* ---------------------------------------------------------------- values
Titles == {"Original Title"}                \* titles the tests insert
NewTitles == {"Updated Title"}              \* titles the update inputs carry
Descriptions == {"Original description"}
NULL == "null"                            \* the JavaScript value null
PlaceholderTitle == "Placeholder Title"
Ids == 1..(MaxTasks + 1)                  \* MaxTasks + 1 is never assigned
Times == 0..MaxClock
MutableFields == {"title", "description", "completed"}

VARIABLES
    tasksTable,   \* the tasks table: a function from the ids present to rows
    nextId,       \* the serial sequence behind tasksTable.id
    now,          \* the clock read by new Date() and by the column defaults
    call          \* the handler call completed by the last step, if any:
                  \* its input, its outcome, the table and the instant it
                  \* started from

VARIABLES
    tasks,        \* App: the local task list (useState<Task[]>)
    formData,     \* App: the new-task form
    isLoading,    \* App: a loadTasks is running
    isCreating,   \* App: a handleCreateTask is running
    mounted,      \* App: the component has mounted (useEffect has run)
    net           \* requests on their way to the server, responses on their
                  \* way back

serverVars == <<tasksTable, nextId, now, call>>
clientVars == <<tasks, formData, isLoading, isCreating, mounted, net>>
vars == <<tasksTable, nextId, now, call,
          tasks, formData, isLoading, isCreating, mounted, net>>

EmptyTable == [i \in {} |-> 0]

\* No handler call completed in the last step.
NoCall ==
    [op |-> "none", input |-> [id |-> 0], outcome |-> "none",
     error |-> "", result |-> <<>>, before |-> EmptyTable, at |-> 0]

\* A field that the input may leave out: absent from the record's domain.
Optional(name, values) == {EmptyTable} \cup {name :> v : v \in values}

UpdateTaskInput ==
    { [id |-> i] @@ t @@ d @@ c :
        i \in Ids,
        t \in Optional("title", NewTitles),
        d \in Optional("description", Descriptions \cup {NULL}),
        c \in Optional("completed", BOOLEAN) }

ToggleTaskCompletionInput == [id : Ids, completed : BOOLEAN]

DeleteTaskInput == [id : Ids]

\* A create request as it reaches the server: the title may be empty.
CreateTaskInput ==
    { [title |-> t] @@ d :
        t \in Titles \cup {""},
        d \in Optional("description", Descriptions \cup {NULL}) }

\* JavaScript's a || b on an optional string: b when a is undefined or "".
OrElse(input, name, default) ==
    IF name \in DOMAIN input /\ input[name] # "" THEN input[name] ELSE default

\* input.f !== undefined ? input.f : default
DefinedOr(input, name, default) ==
    IF name \in DOMAIN input THEN input[name] ELSE default

\* ClockReads with the two evaluations taken in the other order.
ClockReads_Swapped ==
    {<<t, now>> : t \in {u \in {now, now + 1} : u <= MaxClock}}

\* Two successive evaluations of new Date(): the second is never earlier.
ClockReads == {<<now, t>> : t \in {u \in {now, now + 1} : u <= MaxClock}}

EmptyForm == [title |-> "", description |-> NULL]

Init ==
    /\ tasksTable = EmptyTable
    /\ nextId = 1
    /\ now = 0
    /\ call = NoCall
    /\ tasks = <<>>
    /\ formData = EmptyForm
    /\ isLoading = FALSE
    /\ isCreating = FALSE
    /\ mounted = FALSE
    /\ net = {}

\* NewRow with the id taken from a sequence that never advances.
NewRow_StuckSerial(title, description, completed) ==
    [id |-> 1, title |-> title, description |-> description,
     completed |-> completed, created_at |-> now, updated_at |-> now]

\* The row the store makes of inserted values: the next serial id, and both
\* timestamps from the clock.
NewRow(title, description, completed) ==
    [id |-> nextId, title |-> title, description |-> description,
     completed |-> completed, created_at |-> now, updated_at |-> now]

\* db.insert(tasksTable).values({title, description, completed}): the store
\* assigns the id and both timestamps.
insertTask(title, description, completed) ==
    /\ nextId <= MaxTasks
    /\ tasksTable' = (nextId :> NewRow(title, description, completed))
                     @@ tasksTable
    /\ nextId' = nextId + 1
    /\ call' = NoCall
    /\ UNCHANGED now

\* Time passes between two requests.
Tick ==
    /\ now < MaxClock
    /\ now' = now + 1
    /\ call' = NoCall
    /\ UNCHANGED <<tasksTable, nextId>>

\* updateTask reading the row and writing the supplied fields back.
updateTask_Persisting(input) ==
    IF input.id \in DOMAIN tasksTable
    THEN \E reads \in ClockReads :
            LET old == tasksTable[input.id]
                row == [id |-> old.id,
                        title |-> DefinedOr(input, "title", old.title),
                        description |->
                            DefinedOr(input, "description", old.description),
                        completed |->
                            DefinedOr(input, "completed", old.completed),
                        created_at |-> old.created_at,
                        updated_at |-> reads[2]]
            IN /\ tasksTable' = [tasksTable EXCEPT ![input.id] = row]
               /\ call' = [op |-> "updateTask", input |-> input,
                           outcome |-> "resolved", error |-> "",
                           result |-> <<row>>,
                           before |-> tasksTable, at |-> now]
               /\ now' = reads[2]
               /\ UNCHANGED nextId
    ELSE /\ call' = [op |-> "updateTask", input |-> input,
                     outcome |-> "rejected", error |-> "not found",
                     result |-> <<>>,
                     before |-> tasksTable, at |-> now]
         /\ UNCHANGED <<tasksTable, nextId, now>>

updateTask(input) ==
    \E reads \in ClockReads :
        /\ call' = [op |-> "updateTask", input |-> input,
                    outcome |-> "resolved", error |-> "",
                    result |-> << [id |-> input.id,
                                   title |-> OrElse(input, "title", PlaceholderTitle),
                                   description |-> DefinedOr(input, "description", NULL),
                                   completed |-> DefinedOr(input, "completed", FALSE),
                                   created_at |-> reads[1],
                                   updated_at |-> reads[2]] >>,
                    before |-> tasksTable, at |-> now]
        /\ now' = reads[2]
        /\ UNCHANGED <<tasksTable, nextId>>

toggleTaskCompletion(input) ==
    \E reads \in ClockReads :
        /\ call' = [op |-> "toggleTaskCompletion", input |-> input,
                    outcome |-> "resolved", error |-> "",
                    result |-> << [id |-> input.id,
                                   title |-> PlaceholderTitle,
                                   description |-> NULL,
                                   completed |-> input.completed,
                                   created_at |-> reads[1],
                                   updated_at |-> reads[2]] >>,
                    before |-> tasksTable, at |-> now]
        /\ now' = reads[2]
        /\ UNCHANGED <<tasksTable, nextId>>

deleteTask(input) ==
    /\ call' = [op |-> "deleteTask", input |-> input,
                outcome |-> "resolved", error |-> "",
                result |-> << [success |-> TRUE] >>,
                before |-> tasksTable, at |-> now]
    /\ UNCHANGED <<tasksTable, nextId, now>>

\* The validator in front of createTask: the title is not empty.
ValidCreateTaskInput(input) == input.title # ""

\* createTask passing a missing description on instead of null.
createTask_NoNullDefault(input) ==
    IF ValidCreateTaskInput(input)
    THEN LET row == NewRow(input.title,
                           DefinedOr(input, "description", "undefined"), FALSE)
         IN /\ nextId <= MaxTasks
            /\ tasksTable' = (nextId :> row) @@ tasksTable
            /\ nextId' = nextId + 1
            /\ call' = [op |-> "createTask", input |-> input,
                        outcome |-> "resolved", error |-> "",
                        result |-> <<row>>,
                        before |-> tasksTable, at |-> now]
            /\ UNCHANGED now
    ELSE /\ call' = [op |-> "createTask", input |-> input,
                     outcome |-> "rejected", error |-> "validation",
                     result |-> <<>>,
                     before |-> tasksTable, at |-> now]
         /\ UNCHANGED <<tasksTable, nextId, now>>

\* createTask behind its validator: a rejected input never reaches the store;
\* an accepted one becomes a row with completed = false and the description
\* given, null when there is none.
createTask(input) ==
    IF ValidCreateTaskInput(input)
    THEN LET row == NewRow(input.title, DefinedOr(input, "description", NULL),
                           FALSE)
         IN /\ nextId <= MaxTasks
            /\ tasksTable' = (nextId :> row) @@ tasksTable
            /\ nextId' = nextId + 1
            /\ call' = [op |-> "createTask", input |-> input,
                        outcome |-> "resolved", error |-> "",
                        result |-> <<row>>,
                        before |-> tasksTable, at |-> now]
            /\ UNCHANGED now
    ELSE /\ call' = [op |-> "createTask", input |-> input,
                     outcome |-> "rejected", error |-> "validation",
                     result |-> <<>>,
                     before |-> tasksTable, at |-> now]
         /\ UNCHANGED <<tasksTable, nextId, now>>

\* ListedBefore with the order reversed: oldest first.
ListedBefore_Ascending(r, s) ==
    \/ r.created_at < s.created_at
    \/ r.created_at = s.created_at /\ r.id <= s.id

\* The listing order: created_at descending, equal instants by id ascending.
ListedBefore(r, s) ==
    \/ r.created_at > s.created_at
    \/ r.created_at = s.created_at /\ r.id <= s.id

RECURSIVE Ordered(_)
Ordered(rows) ==
    IF rows = {} THEN <<>>
    ELSE LET first == CHOOSE r \in rows : \A s \in rows : ListedBefore(r, s)
         IN <<first>> \o Ordered(rows \ {first})

Rows(table) == {table[i] : i \in DOMAIN table}

getTasks ==
    /\ call' = [op |-> "getTasks", input |-> [id |-> 0],
                outcome |-> "resolved", error |-> "",
                result |-> Ordered(Rows(tasksTable)),
                before |-> tasksTable, at |-> now]
    /\ UNCHANGED <<tasksTable, nextId, now>>

\* The handlers called directly, as the tests call them: the client stands
\* still.
Next ==
    \/ \E t \in Titles, d \in Descriptions \cup {NULL}, c \in BOOLEAN :
           insertTask(t, d, c) /\ UNCHANGED clientVars
    \/ Tick /\ UNCHANGED clientVars
    \/ \E input \in UpdateTaskInput :
           updateTask(input) /\ UNCHANGED clientVars
    \/ \E input \in ToggleTaskCompletionInput :
           toggleTaskCompletion(input) /\ UNCHANGED clientVars
    \/ \E input \in DeleteTaskInput :
           deleteTask(input) /\ UNCHANGED clientVars
    \/ \E input \in CreateTaskInput :
           createTask(input) /\ UNCHANGED clientVars
    \/ getTasks /\ UNCHANGED clientVars

Spec == Init /\ [][Next]_vars

\* ---------------------------------------------------------------- client
\* What the user can type into the title box.
FormTitles == Titles \cup {"", "  "}

\* String.prototype.trim on the titles in use: a title of white space only
\* becomes the empty string, the others have no white space at their ends.
Trim(title) == IF title \in {"", "  "} THEN "" ELSE title

\* IsBlank without the trim.
IsBlank_NoTrim(title) == title = ""

\* !formData.title.trim()
IsBlank(title) == Trim(title) = ""

Request(from, op, input) ==
    [kind |-> "req", from |-> from, op |-> op, input |-> input]

\* What comes back for a request: the task or tasks of a call that resolved,
\* nothing of one that was rejected.
Response(req, ok, result) ==
    [kind |-> "res", from |-> req.from, op |-> req.op, input |-> req.input,
     ok |-> ok, result |-> result]

Requests == {m \in net : m.kind = "req"}
Responses(op) == {m \in net : m.kind = "res" /\ m.from = "App" /\ m.op = op}

\* The ids of the tasks on display.
Displayed == {tasks[k].id : k \in 1..Len(tasks)}
TaskShown(id) == tasks[CHOOSE k \in 1..Len(tasks) : tasks[k].id = id]

\* prev.map(task => task.id === taskId ? updatedTask : task)
MapReplace(prev, taskId, updatedTask) ==
    [k \in 1..Len(prev) |->
        IF prev[k].id = taskId THEN updatedTask ELSE prev[k]]

\* prev.filter(task => task.id !== taskId)
RECURSIVE FilterOut(_, _)
FilterOut(prev, taskId) ==
    IF prev = <<>> THEN <<>>
    ELSE IF Head(prev).id = taskId THEN FilterOut(Tail(prev), taskId)
         ELSE <<Head(prev)>> \o FilterOut(Tail(prev), taskId)

\* onChange of the title input.
setTitle(value) ==
    /\ mounted
    /\ formData' = [formData EXCEPT !.title = value]
    /\ call' = NoCall
    /\ UNCHANGED <<tasksTable, nextId, now, tasks, isLoading, isCreating,
                   mounted, net>>

\* onChange of the description box: e.target.value || null.
setDescription(value) ==
    /\ mounted
    /\ formData' = [formData EXCEPT
                        !.description = IF value # "" THEN value ELSE NULL]
    /\ call' = NoCall
    /\ UNCHANGED <<tasksTable, nextId, now, tasks, isLoading, isCreating,
                   mounted, net>>

\* The effect run on mount: loadTasks up to its await.
loadTasks ==
    /\ ~mounted
    /\ mounted' = TRUE
    /\ isLoading' = TRUE
    /\ net' = net \cup {Request("App", "getTasks", [id |-> 0])}
    /\ call' = NoCall
    /\ UNCHANGED <<tasksTable, nextId, now, tasks, formData, isCreating>>

\* loadTasks from its await on: setTasks(result), or the catch; finally.
loadTasksSettled(res) ==
    /\ res \in Responses("getTasks")
    /\ tasks' = IF res.ok THEN res.result ELSE tasks
    /\ isLoading' = FALSE
    /\ net' = net \ {res}
    /\ call' = NoCall
    /\ UNCHANGED <<tasksTable, nextId, now, formData, isCreating, mounted>>

\* handleCreateTask up to its await: nothing is sent for a blank title.
handleCreateTask ==
    /\ mounted
    /\ IF IsBlank(formData.title)
       THEN UNCHANGED <<isCreating, net>>
       ELSE /\ isCreating' = TRUE
            /\ net' = net \cup {Request("App", "createTask", formData)}
    /\ call' = NoCall
    /\ UNCHANGED <<tasksTable, nextId, now, tasks, formData, isLoading, mounted>>

\* handleCreateTask from its await on.
handleCreateTaskSettled(res) ==
    /\ res \in Responses("createTask")
    /\ IF res.ok
       THEN /\ tasks' = <<res.result[1]>> \o tasks
            /\ formData' = EmptyForm
       ELSE UNCHANGED <<tasks, formData>>
    /\ isCreating' = FALSE
    /\ net' = net \ {res}
    /\ call' = NoCall
    /\ UNCHANGED <<tasksTable, nextId, now, isLoading, mounted>>

\* The task lists are rendered, with their checkboxes and delete buttons.
ListShown == mounted /\ ~isLoading /\ Len(tasks) > 0

\* handleToggleCompletion up to its await, from the checkbox of a task on
\* display: the new state of the checkbox is the opposite of the one shown.
handleToggleCompletion(taskId, completed) ==
    /\ ListShown
    /\ taskId \in Displayed
    /\ completed = ~TaskShown(taskId).completed
    /\ Request("App", "toggleTaskCompletion",
               [id |-> taskId, completed |-> completed]) \notin net
    /\ net' = net \cup {Request("App", "toggleTaskCompletion",
                                [id |-> taskId, completed |-> completed])}
    /\ call' = NoCall
    /\ UNCHANGED <<tasksTable, nextId, now, tasks, formData, isLoading,
                   isCreating, mounted>>

\* handleToggleCompletion from its await on.
handleToggleCompletionSettled(res) ==
    /\ res \in Responses("toggleTaskCompletion")
    /\ tasks' = IF res.ok THEN MapReplace(tasks, res.input.id, res.result[1])
                ELSE tasks
    /\ net' = net \ {res}
    /\ call' = NoCall
    /\ UNCHANGED <<tasksTable, nextId, now, formData, isLoading, isCreating,
                   mounted>>

\* handleDeleteTask up to its await, from the dialog of a task on display.
handleDeleteTask(taskId) ==
    /\ ListShown
    /\ taskId \in Displayed
    /\ Request("App", "deleteTask", [id |-> taskId]) \notin net
    /\ net' = net \cup {Request("App", "deleteTask", [id |-> taskId])}
    /\ call' = NoCall
    /\ UNCHANGED <<tasksTable, nextId, now, tasks, formData, isLoading,
                   isCreating, mounted>>

\* handleDeleteTask from its await on.
handleDeleteTaskSettled(res) ==
    /\ res \in Responses("deleteTask")
    /\ tasks' = IF res.ok THEN FilterOut(tasks, res.input.id) ELSE tasks
    /\ net' = net \ {res}
    /\ call' = NoCall
    /\ UNCHANGED <<tasksTable, nextId, now, formData, isLoading, isCreating,
                   mounted>>

\* The server runs the procedure a request of the App names and answers.
Serve(req) ==
    /\ req \in Requests
    /\ req.from = "App"
    /\ \/ req.op = "getTasks" /\ getTasks
       \/ req.op = "createTask" /\ createTask(req.input)
       \/ req.op = "toggleTaskCompletion" /\ toggleTaskCompletion(req.input)
       \/ req.op = "deleteTask" /\ deleteTask(req.input)
    /\ net' = (net \ {req})
              \cup {Response(req, call'.outcome = "resolved", call'.result)}
    /\ UNCHANGED <<tasks, formData, isLoading, isCreating, mounted>>

\* A request fails on its way: the procedure does not run, the caller's
\* await throws.
TransportFails(req) ==
    /\ req \in Requests
    /\ net' = (net \ {req}) \cup {Response(req, FALSE, <<>>)}
    /\ call' = NoCall
    /\ UNCHANGED <<tasksTable, nextId, now, tasks, formData, isLoading,
                   isCreating, mounted>>

\* No request of the App is under way.
Quiet == net = {}

\* The App issuing its requests one at a time, each response handled before
\* the next request; before it mounts rows are put in the store and create
\* requests with an empty title arrive from elsewhere.  The description box
\* is left empty.
SequentialNext ==
    \/ \E t \in Titles, d \in Descriptions \cup {NULL}, c \in BOOLEAN :
           ~mounted /\ insertTask(t, d, c) /\ UNCHANGED clientVars
    \/ Tick /\ UNCHANGED clientVars
    \/ \E input \in CreateTaskInput :
           /\ ~mounted /\ input.title = ""
           /\ createTask(input) /\ UNCHANGED clientVars
    \/ loadTasks
    \/ \E value \in FormTitles : setTitle(value)
    \/ Quiet /\ ~isCreating /\ handleCreateTask
    \/ \E taskId \in Ids, completed \in BOOLEAN :
           Quiet /\ handleToggleCompletion(taskId, completed)
    \/ \E taskId \in Ids : Quiet /\ handleDeleteTask(taskId)
    \/ \E req \in net : Serve(req)
    \/ \E req \in net : req.op # "getTasks" /\ TransportFails(req)
    \/ \E res \in net : loadTasksSettled(res)
    \/ \E res \in net : handleCreateTaskSettled(res)
    \/ \E res \in net : handleToggleCompletionSettled(res)
    \/ \E res \in net : handleDeleteTaskSettled(res)

SequentialSpec == Init /\ [][SequentialNext]_vars

\* The new-task form on its own: the App mounts, the user types and submits,
\* the server answers, and create requests with an empty title arrive from
\* elsewhere.
FormNext ==
    \/ Tick /\ UNCHANGED clientVars
    \/ \E input \in CreateTaskInput :
           /\ input.title = ""
           /\ createTask(input) /\ UNCHANGED clientVars
    \/ loadTasks
    \/ \E value \in FormTitles : setTitle(value)
    \/ \E value \in Descriptions \cup {""} : setDescription(value)
    \/ ~isCreating /\ handleCreateTask   \* the button is disabled meanwhile
    \/ \E req \in net : Serve(req)
    \/ \E req \in net : TransportFails(req)
    \/ \E res \in net : loadTasksSettled(res)
    \/ \E res \in net : handleCreateTaskSettled(res)

FormSpec == Init /\ [][FormNext]_vars

\* The App from its mount on, with its first load in flight: rows are in the
\* store before the mount; the form is usable at once, so create requests go
\* out while the load is under way and their responses arrive in any order
\* with the load's; the checkboxes and delete buttons appear only once the
\* load has settled (ListShown), and are used when nothing else is under way.
LoadNext ==
    \/ \E t \in Titles, d \in Descriptions \cup {NULL}, c \in BOOLEAN :
           ~mounted /\ insertTask(t, d, c) /\ UNCHANGED clientVars
    \/ Tick /\ UNCHANGED clientVars
    \/ loadTasks
    \/ \E value \in Titles : setTitle(value)
    \/ ~isCreating /\ handleCreateTask   \* the button is disabled meanwhile
    \/ \E taskId \in Ids, completed \in BOOLEAN :
           Quiet /\ handleToggleCompletion(taskId, completed)
    \/ \E taskId \in Ids : Quiet /\ handleDeleteTask(taskId)
    \/ \E req \in net : Serve(req)
    \/ \E res \in net : loadTasksSettled(res)
    \/ \E res \in net : handleCreateTaskSettled(res)
    \/ \E res \in net : handleToggleCompletionSettled(res)
    \/ \E res \in net : handleDeleteTaskSettled(res)

LoadSpec == Init /\ [][LoadNext]_vars

\* ---------------------------------------------------------------- race
\* Two callers of updateTask, each with one call under way at a time.
Callers == {"A", "B"}

\* A caller asks for a change of a stored row: every field it supplies
\* differs from what the row holds; the two callers aim at the same id.
IssueUpdate(caller, input) ==
    /\ \A m \in net : m.from # caller
    /\ \A m \in net : m.input.id = input.id
    /\ input.id \in DOMAIN tasksTable
    /\ DOMAIN input # {"id"}
    /\ \A f \in DOMAIN input \ {"id"} : input[f] # tasksTable[input.id][f]
    /\ net' = net \cup {Request(caller, "updateTask", input)}
    /\ call' = NoCall
    /\ UNCHANGED <<tasksTable, nextId, now, tasks, formData, isLoading,
                   isCreating, mounted>>

\* The server runs updateTask for a request and answers.
ServeUpdate(req) ==
    /\ req \in Requests
    /\ req.op = "updateTask"
    /\ updateTask(req.input)
    /\ net' = (net \ {req})
              \cup {Response(req, call'.outcome = "resolved", call'.result)}
    /\ UNCHANGED <<tasks, formData, isLoading, isCreating, mounted>>

RaceNext ==
    \/ \E t \in Titles, d \in Descriptions \cup {NULL}, c \in BOOLEAN :
           net = {} /\ insertTask(t, d, c) /\ UNCHANGED clientVars
    \/ \E caller \in Callers, input \in UpdateTaskInput :
           IssueUpdate(caller, input)
    \/ \E req \in net : ServeUpdate(req)

RaceSpec == Init /\ [][RaceNext]_vars

TypeOK ==
    /\ DOMAIN tasksTable = 1..(nextId - 1)
    /\ nextId \in 1..(MaxTasks + 1)
    /\ now \in Times
    /\ call.op \in {"none", "updateTask", "toggleTaskCompletion", "deleteTask",
                  "createTask", "getTasks"}
    /\ \A i \in DOMAIN tasksTable :
           /\ tasksTable[i].id = i
           /\ tasksTable[i].created_at <= tasksTable[i].updated_at
           /\ tasksTable[i].updated_at <= now

\* ---------------------------------------------------------------- claims
\* What the tests expect a rejected call to carry for a missing id.
NotFoundMessage(id) == "Task with id " \o ToString(id) \o " not found"

Completed(op) == call.op = op /\ call.outcome # "none"
Succeeded(op) == call.op = op /\ call.outcome = "resolved"
Existed == call.input.id \in DOMAIN call.before
Stored == call.before[call.input.id]       \* the row before the call
Returned == call.result[1]                 \* the row the call resolved with
\* The call started at a later instant than the row's last write: the calls
\* for which a clock of this resolution can show a later updated_at.
ClockMoved == call.at > Stored.updated_at

RejectedNotFound ==
    /\ call.outcome = "rejected"
    /\ call.error = NotFoundMessage(call.input.id)
    /\ call.result = <<>>
    /\ tasksTable = call.before

\* C1: updateTask on an id absent from the store fails with the not-found
\* error naming that id, returns no task and leaves the store unchanged.
C1_UpdateMissingIdRejected ==
    (Completed("updateTask") /\ ~Existed) => RejectedNotFound

\* C2: deleteTask returns {success: true} only when the id was in the store
\* when it was called; on an absent id it fails with the not-found error
\* naming that id and leaves the store unchanged.
C2_DeleteSuccessOnlyIfPresent ==
    Completed("deleteTask") =>
        /\ (call.outcome = "resolved" /\ call.result = << [success |-> TRUE] >>)
               => Existed
        /\ ~Existed => RejectedNotFound

\* C3: toggleTaskCompletion on an id absent from the store fails with the
\* not-found error naming that id, returns no task and mutates nothing.
C3_ToggleMissingIdRejected ==
    (Completed("toggleTaskCompletion") /\ ~Existed) => RejectedNotFound

\* C4: after updateTask on an existing task, every one of title, description
\* and completed that the input omits has, in the returned row and in the
\* stored row, the value it had before the call.
C4_UpdateOmittedFieldsKept ==
    (Succeeded("updateTask") /\ Existed) =>
        \A f \in MutableFields \ DOMAIN call.input :
            /\ Returned[f] = Stored[f]
            /\ call.input.id \in DOMAIN tasksTable
            /\ tasksTable[call.input.id][f] = Stored[f]

\* C5: on an existing task whose description is a string, updateTask with
\* description: null yields description = null, and updateTask with no
\* description field yields the previous string.
C5_UpdateNullVersusOmitted ==
    (Succeeded("updateTask") /\ Existed /\ Stored.description # NULL) =>
        /\ ("description" \in DOMAIN call.input /\ call.input.description = NULL)
               => Returned.description = NULL
        /\ "description" \notin DOMAIN call.input
               => Returned.description = Stored.description

\* C6: every successful updateTask on an existing task returns a row with
\* the same id and created_at as before the call and an updated_at strictly
\* greater than the one the row had before the call.
C6_UpdateTimestamps ==
    (Succeeded("updateTask") /\ Existed /\ ClockMoved) =>
        /\ Returned.id = Stored.id
        /\ Returned.created_at = Stored.created_at
        /\ Returned.updated_at > Stored.updated_at

\* C7: updateTask on an existing task with only the id succeeds and returns
\* the row with title, description, completed, id and created_at unchanged
\* and updated_at refreshed to a later time.
C7_UpdateIdOnly ==
    (/\ Completed("updateTask") /\ Existed /\ ClockMoved
     /\ DOMAIN call.input = {"id"}) =>
        /\ call.outcome = "resolved"
        /\ Len(call.result) = 1
        /\ Returned.title = Stored.title
        /\ Returned.description = Stored.description
        /\ Returned.completed = Stored.completed
        /\ Returned.id = Stored.id
        /\ Returned.created_at = Stored.created_at
        /\ Returned.updated_at > Stored.updated_at

\* C8: after a successful updateTask the row stored under that id equals the
\* row the call returned.
C8_UpdatePersisted ==
    Succeeded("updateTask") =>
        /\ call.input.id \in DOMAIN tasksTable
        /\ tasksTable[call.input.id] = Returned

\* C9, one call: toggleTaskCompletion on an existing task sets completed to
\* exactly the given value, keeps id, title and description as stored, and
\* persists the result.
ToggleSetsGivenValue ==
    (Completed("toggleTaskCompletion") /\ Existed) =>
        /\ call.outcome = "resolved"
        /\ Len(call.result) = 1
        /\ Returned.completed = call.input.completed
        /\ Returned.id = Stored.id
        /\ Returned.title = Stored.title
        /\ Returned.description = Stored.description
        /\ call.input.id \in DOMAIN tasksTable
        /\ tasksTable[call.input.id].completed = call.input.completed
        /\ tasksTable[call.input.id].id = Stored.id
        /\ tasksTable[call.input.id].title = Stored.title
        /\ tasksTable[call.input.id].description = Stored.description

\* C9, two calls: a second toggleTaskCompletion with the same input right
\* after the first gives the same completed value.
ToggleTwiceSameValue ==
    (/\ Succeeded("toggleTaskCompletion") /\ Existed
     /\ call'.op = "toggleTaskCompletion" /\ call'.outcome = "resolved"
     /\ call'.input = call.input) =>
        /\ call'.result[1].completed = Returned.completed
        /\ call.input.id \in DOMAIN tasksTable'
        /\ tasksTable'[call.input.id].completed = Returned.completed

\* C9: toggleTaskCompletion sets completed to the given value whatever it
\* was (it never inverts), keeps id, title and description, persists the
\* result, and applied twice with the same input gives what it gives once.
C9_ToggleSetsAndIsIdempotent ==
    []ToggleSetsGivenValue /\ [][ToggleTwiceSameValue]_vars

\* C10: every successful toggleTaskCompletion, also one whose input equals
\* the current completed value, leaves created_at unchanged and makes
\* updated_at strictly greater than it was before the call.
C10_ToggleTimestamps ==
    (Succeeded("toggleTaskCompletion") /\ Existed /\ ClockMoved) =>
        /\ Returned.created_at = Stored.created_at
        /\ Returned.updated_at > Stored.updated_at
        /\ call.input.id \in DOMAIN tasksTable
        /\ tasksTable[call.input.id].created_at = Stored.created_at
        /\ tasksTable[call.input.id].updated_at > Stored.updated_at

\* C11: deleteTask on an id that is in the store returns {success: true} and
\* removes the row: neither a read by that id nor a listing made afterwards
\* contains it.
C11_DeleteRemovesRow ==
    (Completed("deleteTask") /\ Existed) =>
        /\ call.outcome = "resolved"
        /\ call.result = << [success |-> TRUE] >>
        /\ call.input.id \notin DOMAIN tasksTable
        /\ \A r \in Rows(tasksTable) : r.id # call.input.id
        /\ LET listing == Ordered(Rows(tasksTable))
           IN \A k \in 1..Len(listing) : listing[k].id # call.input.id

\* C12: a successful deleteTask removes exactly the row with that id: the
\* store afterwards is the store before without that row, every other row
\* present with all its fields unchanged.
C12_DeleteRemovesExactlyOne ==
    (Succeeded("deleteTask") /\ Existed) =>
        tasksTable = [i \in DOMAIN call.before \ {call.input.id} |->
                          call.before[i]]

\* The description createTask is to store for an input.
GivenDescription(input) ==
    IF "description" \in DOMAIN input /\ input.description # NULL
    THEN input.description ELSE NULL

\* C13: createTask stores and returns a row with the given title,
\* completed = false, created_at equal to updated_at, and the description
\* given, null when it is omitted or null.
C13_CreateRow ==
    Succeeded("createTask") =>
        /\ Len(call.result) = 1
        /\ Returned.title = call.input.title
        /\ Returned.completed = FALSE
        /\ Returned.created_at = Returned.updated_at
        /\ Returned.description = GivenDescription(call.input)
        /\ Returned.id \notin DOMAIN call.before
        /\ Returned.id \in DOMAIN tasksTable
        /\ tasksTable[Returned.id] = Returned

\* C13 happens: a create without a description has resolved with null.
C13_Witness ==
    /\ Succeeded("createTask")
    /\ "description" \notin DOMAIN call.input
    /\ Returned.description = NULL
    /\ tasksTable[Returned.id].title = call.input.title

\* C14: the id createTask assigns is positive and greater than every id
\* assigned before it, those of rows no longer stored included, and no step
\* changes the id of a row that stays in the store.
C14_IdsIncreaseAndStay ==
    [][/\ (call'.op = "createTask" /\ call'.outcome = "resolved") =>
            /\ call'.result[1].id > 0
            /\ \A i \in 1..(nextId - 1) : call'.result[1].id > i
            /\ \A i \in DOMAIN tasksTable : call'.result[1].id > tasksTable[i].id
            /\ \A r \in Rows(tasksTable') \ {call'.result[1]} :
                   r.id # call'.result[1].id
       /\ \A i \in DOMAIN tasksTable \cap DOMAIN tasksTable' :
            tasksTable'[i].id = tasksTable[i].id]_vars

\* C14 happens: a create made after an earlier row has been given id 2.
C14_Witness ==
    /\ Succeeded("createTask")
    /\ Returned.id = 2
    /\ 1 \in DOMAIN tasksTable

\* C15: every row in the store and every row a handler returns has
\* created_at <= updated_at.
C15_CreatedNotAfterUpdated ==
    /\ \A r \in Rows(tasksTable) : r.created_at <= r.updated_at
    /\ call.op \in {"createTask", "updateTask", "toggleTaskCompletion",
                    "getTasks"} =>
           \A k \in 1..Len(call.result) :
               call.result[k].created_at <= call.result[k].updated_at

\* C15 happens: an update of a stored row returned timestamps read at two
\* different instants.
C15_Witness ==
    /\ Succeeded("updateTask") /\ Existed
    /\ Returned.created_at < Returned.updated_at

\* C16: getTasks returns exactly the rows in the store, each once (none for
\* an empty store, N for N rows), ordered by created_at descending.
C16_ListingExactAndOrdered ==
    Succeeded("getTasks") =>
        /\ Len(call.result) = Cardinality(DOMAIN tasksTable)
        /\ \A i \in DOMAIN tasksTable :
               Cardinality({k \in 1..Len(call.result) :
                               call.result[k] = tasksTable[i]}) = 1
        /\ \A k \in 1..Len(call.result) : call.result[k] \in Rows(tasksTable)
        /\ \A k, l \in 1..Len(call.result) :
               k < l => call.result[k].created_at >= call.result[l].created_at

\* C16 happens: a listing of two rows created at different instants.
C16_Witness ==
    /\ Succeeded("getTasks")
    /\ Len(call.result) = 2
    /\ call.result[1].created_at > call.result[2].created_at
    /\ call.result[1].id = 2

\* C19, on the step after a successful deleteTask: the row with that id is
\* not in the store, and no updateTask or toggleTaskCompletion on that id
\* resolves with a task.
DeletedStaysDeleted ==
    Succeeded("deleteTask") =>
        /\ call.input.id \notin DOMAIN tasksTable'
        /\ ~ /\ call'.op \in {"updateTask", "toggleTaskCompletion"}
             /\ call'.input.id = call.input.id
             /\ call'.outcome = "resolved"

\* C19: a task id goes nonexistent -> active -> nonexistent and no further:
\* once deleteTask has succeeded for an id, no later call makes a row with
\* that id present again or returns a task for it.
C19_NoLifeAfterDelete == [][DeletedStaysDeleted]_vars

\* C17: a createTask request with an empty title is rejected with a
\* validation error and the store stays as it was, no stored row has an
\* empty title; the App sends no createTask request for a title that is
\* empty or white space only, and its task list gains no such task.
C17_BlankTitleNeverCreated ==
    /\ (Completed("createTask") /\ call.input.title = "") =>
           /\ call.outcome = "rejected"
           /\ call.error = "validation"
           /\ call.result = <<>>
           /\ tasksTable = call.before
    /\ \A r \in Rows(tasksTable) : r.title # ""
    /\ \A m \in net :
           (m.from = "App" /\ m.op = "createTask") => Trim(m.input.title) # ""
    /\ \A k \in 1..Len(tasks) : Trim(tasks[k].title) # ""

\* C17 happens: with white space typed into the form of the mounted App and
\* no create request under way, a request with an empty title has been
\* rejected.
C17_Witness ==
    /\ mounted
    /\ formData.title = "  "
    /\ \A m \in net : m.op # "createTask"
    /\ Completed("createTask")
    /\ call.input.title = ""
    /\ call.outcome = "rejected"

\* Both callers have their answer, both calls succeeded.
BothUpdated(a, b) ==
    /\ a \in net /\ b \in net
    /\ a.kind = "res" /\ b.kind = "res"
    /\ a.from # b.from
    /\ a.ok /\ b.ok

ListMatchesStore ==
    (mounted /\ ~isLoading /\ Quiet) => tasks = Ordered(Rows(tasksTable))

\* C20, failures: handling a failed response leaves the local list as it is.
FailureKeepsList ==
    \A res \in net :
        (res.kind = "res" /\ ~res.ok /\ res \notin net') => tasks' = tasks

\* C20: with requests issued one at a time after the initial load, the local
\* list after every response equals the listing of the store, and a failed
\* request leaves it unchanged.
C20_ListRefinesStore == []ListMatchesStore /\ [][FailureKeepsList]_vars

\* The local list holds no id twice.
NoDuplicateIds ==
    \A k1, k2 \in 1..Len(tasks) : tasks[k1].id = tasks[k2].id => k1 = k2

\* C21: the local task list never holds two entries with the same id, however
\* the response of the first getTasks is interleaved with the responses of
\* the create, toggle and delete requests issued while that load is in flight.
C21_NoDuplicateIds == NoDuplicateIds
====
